---- MODULE Spec2Model ----
(***************************************************************************)
(* Quiz session engine of the Telegram quiz bot, in its variants:          *)
(*   Lifechanger.py / Original.py : user_data['quiz'] with sent_polls, a   *)
(*       send_next_question chain that sleeps between questions, and       *)
(*       end_quiz rebuilding the participant table from the poll answers;  *)
(*   simple_bot.py : user_data['quiz'] with current_poll_id and a          *)
(*       send_quiz_poll chain;                                             *)
(*   Simple_bot.py : one question per quiz, kept in bot_data, ended by a   *)
(*       job of the job queue.                                             *)
(* Every await of a coroutine is a point where other handlers may run, so  *)
(* each action is the code between two awaits.  Quiz dictionaries are      *)
(* objects: a session id is the identity of the dict created by a start.   *)
(* An answer event reaches the answer handler of a variant as              *)
(* update.poll_answer.                                                     *)
(* Question bank (questions.json) of Lifechanger.py and Original.py: the   *)
(* conversion of a poll into a question (/poll2q), the edit conversation   *)
(* (/edit) and the deletion buttons.  The guided /add of these two files   *)
(* never saves (its category_callback is replaced by the later definition  *)
(* of the same name), and the banks of the other two files are left out.   *)
(***************************************************************************)
EXTENDS Integers, Sequences, FiniteSets, TLC

\* ------------------------------------------------------------- bounds
MaxSessions == 2
MaxQuestions == 2
MaxAnswers == 2

\* ------------------------------------------------------------- inputs
Users == {1, 2}
Requesters == {1}
Options == {0, 1}
NoOption == -1
Variants == {"Lifechanger", "Original", "simple_bot"}
Sid == 1..MaxSessions
\* question bank: question q has correct option Answer(q)
Answer(q) == (q - 1) % 2
QuestionLists == {[i \in 1..n |-> i] : n \in 1..MaxQuestions}

VARIABLES
    variant,    \* which bot file is running
    ud,         \* ud[r]: the dict stored as context.user_data['quiz'] of user r (0: no key)
    quiz,       \* quiz[s]: the quiz dict with identity s
    task,       \* task[s]: the coroutine chain started with session s
    polls,      \* polls[p]: the poll the transport sent with id p (for which dict and question)
    results,    \* results[s]: the result messages delivered for dict s, each with its ranked
                \* entries, the number of questions it states, the requester of the quiz and
                \* whether the scoreboard was empty when it was compiled
    ledger,     \* users.json: per user statistics
    active_timers, \* simple_bot: the timer ids registered by update_countdown_timer
    nAnswers,   \* number of answer events delivered so far
    bot_data,   \* Simple_bot: bot_data[k]: the quiz dict stored in context.bot_data under key k
    jobs,       \* Simple_bot: jobs[k]: the end_quiz_callback jobs of the job queue for key k
    questions_file, \* questions.json: the question bank, a list of question dicts
    user_data,  \* user_data[u]: the keys of context.user_data of user u that the
                \* poll conversion and the edit conversation use, and the state of the
                \* edit conversation
    keyboards,  \* keyboards[u]: the inline keyboards the chat of user u holds
    handler     \* handler[u]: the handler of an update of user u that awaits a send

vars == <<variant, ud, quiz, task, polls, results, ledger, active_timers, nAnswers,
          bot_data, jobs, questions_file, user_data, keyboards, handler>>

\* ------------------------------------------------------------- helpers
NoQuiz ==
    [alloc |-> FALSE, questions |-> <<>>, current_index |-> 0, active |-> FALSE,
     creator |-> 0, sent_polls |-> <<>>, participants |-> <<>>, current_poll_id |-> 0]

\* a coroutine chain: where it is suspended (pc), whose context it runs in (r) and its
\* locals: the quiz dict (q), current_index (ci), len(questions) (n), the dict and index
\* of the question being sent and the question (src, qidx, quest), the poll whose
\* countdown message is being sent (poll), the participants and the ranking of end_quiz
\* (parts, msg)
NoTask ==
    [pc |-> "none", r |-> 0, q |-> 0, ci |-> 0, n |-> 0, src |-> 0, qidx |-> 0, quest |-> 0,
     poll |-> 0, parts |-> <<>>, msg |-> <<>>]

\* Simple_bot: no entry under a key of bot_data (created: the key was used before)
NoEntry ==
    [created |-> FALSE, present |-> FALSE, chat |-> "none", correct_option |-> 0,
     participants |-> <<>>, negative_marking |-> TRUE, timer |-> 0, question_id |-> 0,
     poll_message_id |-> 0]

\* Simple_bot: no job scheduled and no result message being sent for a key
NoJobs == [scheduled |-> 0, sending |-> <<>>]

Medals == <<"first", "second", "third">>

\* what every line of a ranking starts with: the generic medal at every position
Badge_MedalForAll(v, i, n) ==
    [medal |-> IF i <= 3 THEN Medals[i] ELSE "sports", ordinal |-> 0]

\* what line i of n of a ranking starts with (i counts from 1).  Lifechanger and
\* Original: ["first", "second", "third"][i] if i < 3 else f"{i+1}." with i from 0;
\* simple_bot: a medal on every line, the generic one where the three do not apply;
\* Simple_bot: a medal on the first three lines and "#i:" on every line
Badge(v, i, n) ==
    IF v \in {"Lifechanger", "Original"}
    THEN IF i - 1 < 3 THEN [medal |-> Medals[i], ordinal |-> 0]
         ELSE [medal |-> "none", ordinal |-> i]
    ELSE IF v = "simple_bot"
    THEN [medal |-> IF i = 1 THEN "first"
                    ELSE IF i = 2 /\ n > 1 THEN "second"
                    ELSE IF i = 3 /\ n > 2 THEN "third"
                    ELSE "sports",
          ordinal |-> 0]
    ELSE [medal |-> IF i <= 3 THEN Medals[i] ELSE "none", ordinal |-> i]

\* a result message
Message(entries, total, requester, empty) ==
    [entries |-> entries, total |-> total, requester |-> requester, empty |-> empty,
     badges |-> [i \in 1..Len(entries) |-> Badge(variant, i, Len(entries))]]

IsL == variant \in {"Lifechanger", "Original"}
IsS == variant = "simple_bot"

Allocated == {s \in Sid : quiz[s].alloc}
FreshSid == Cardinality(Allocated) + 1

\* index of user u in a sequence of records with a field user (0 when absent)
IndexOf(seq, u) ==
    IF \E i \in 1..Len(seq) : seq[i].user = u
    THEN CHOOSE i \in 1..Len(seq) : seq[i].user = u
    ELSE 0

\* index of poll id p in sent_polls (0 when absent)
PollIndex(sp, p) ==
    IF \E i \in 1..Len(sp) : sp[i].poll_id = p
    THEN CHOOSE i \in 1..Len(sp) : sp[i].poll_id = p
    ELSE 0

NewParticipant(u) == [user |-> u, correct |-> 0, answered |-> 0, negq |-> 0]

\* participants[user_id] created when absent (dict insertion order kept)
WithParticipant(parts, u) ==
    IF IndexOf(parts, u) = 0 THEN Append(parts, NewParticipant(u)) ELSE parts

\* is_correct without the comparison: any chosen option counts
IsCorrect_AnyChosen(o, correct) == o # NoOption

\* is_correct = answer.option_ids and answer.option_ids[0] == correct_answer
IsCorrect(o, correct) == o # NoOption /\ o = correct

\* negative_points += 0.25 on a wrong answer, counted in quarters (Lifechanger only)
NegativeMarking(v) == IF v = "Lifechanger" THEN 1 ELSE 0

\* the counters with 'answered' incremented for an answer that is not correct only
Score_AnsweredIfWrong(parts, u, isc, v) ==
    LET ps == WithParticipant(parts, u)
        i == IndexOf(ps, u)
    IN [ps EXCEPT ![i].answered = IF isc THEN @ ELSE @ + 1,
                  ![i].correct = IF isc THEN @ + 1 ELSE @,
                  ![i].negq = IF isc THEN @ ELSE @ + NegativeMarking(v)]

\* answered += 1; correct += 1 or negative_points += 0.25
Score(parts, u, isc, v) ==
    LET ps == WithParticipant(parts, u)
        i == IndexOf(ps, u)
    IN [ps EXCEPT ![i].answered = @ + 1,
                  ![i].correct = IF isc THEN @ + 1 ELSE @,
                  ![i].negq = IF isc THEN @ ELSE @ + NegativeMarking(v)]

\* poll_info['answers'][user_id] = {...}: overwrite in place, or insert last
\* (user_name and username are stored too and never read again)
PutAnswer(answers, u, o, isc) ==
    LET i == IndexOf(answers, u)
        rec == [user |-> u, option_id |-> o, is_correct |-> isc]
    IN IF i = 0 THEN Append(answers, rec) ELSE [answers EXCEPT ![i] = rec]

\* ------------------------------------------------------------- end_quiz
\* all answer records of sent_polls, poll by poll, in dict order
RECURSIVE AllAnswers(_)
AllAnswers(sp) ==
    IF sp = <<>> THEN <<>> ELSE sp[1].answers \o AllAnswers(Tail(sp))

\* participants rebuilt from the poll answers: one 'answered' per record
RECURSIVE Rebuild(_, _)
Rebuild(parts, recs) ==
    IF recs = <<>> THEN parts
    ELSE LET ps == WithParticipant(parts, recs[1].user)
             i == IndexOf(ps, recs[1].user)
         IN Rebuild([ps EXCEPT ![i].answered = @ + 1,
                               ![i].correct = IF recs[1].is_correct THEN @ + 1 ELSE @],
                    Tail(recs))

\* the creator stands in when no poll answer was recorded
FinalParticipants(qz) ==
    LET parts == Rebuild(<<>>, AllAnswers(qz.sent_polls))
        n == Len(qz.questions)
    IN IF parts = <<>> /\ qz.creator # 0
       THEN <<[user |-> qz.creator, correct |-> n, answered |-> n, negq |-> 0]>>
       ELSE parts

\* sort key (correct - negative_points, -answered), score in quarters
KeyGreater(a, b) ==
    LET sa == 4 * a.correct - a.negq
        sb == 4 * b.correct - b.negq
    IN sa > sb \/ (sa = sb /\ (0 - a.answered) > (0 - b.answered))

\* sorted(..., reverse=True) is stable: an element goes after every element
\* whose key is not smaller than its own
RECURSIVE InsertDesc(_, _)
InsertDesc(sorted, e) ==
    IF sorted = <<>> THEN <<e>>
    ELSE IF KeyGreater(e, sorted[1]) THEN <<e>> \o sorted
    ELSE <<sorted[1]>> \o InsertDesc(Tail(sorted), e)

RECURSIVE SortedParticipants(_)
SortedParticipants(parts) ==
    IF parts = <<>> THEN <<>>
    ELSE InsertDesc(SortedParticipants(SubSeq(parts, 1, Len(parts) - 1)), parts[Len(parts)])

\* ------------------------------------------------------------- the question bank
MaxOptions == 3
MaxBank == 3
MaxKeyboards == 2

\* the sample questions load_questions writes when questions.json does not exist
SampleQuestions ==
    <<[id |-> 1, options |-> 4, answer |-> 2], [id |-> 2, options |-> 4, answer |-> 1]>>

NoKey == -1
NoPending == [present |-> FALSE, options |-> 0, answer |-> 0]
NoUserData ==
    [poll_options |-> NoKey, poll_correct_answer |-> NoKey,
     pending_poll |-> NoKey, pending_question |-> NoPending,
     waiting_for_custom_id |-> FALSE,
     state |-> "END", edit_question_id |-> NoKey, edit_index |-> NoKey,
     edit_field |-> "none", questions |-> <<>>]
\* the answer keyboards (by their numbers of buttons), the number of category
\* keyboards and the number of id keyboards
NoKeyboards == [answer |-> {}, category |-> 0, ids |-> 0]
NoHandler == [pc |-> "none", questions |-> <<>>]

BankInit ==
    /\ questions_file = SampleQuestions
    /\ user_data = [u \in Users |-> NoUserData]
    /\ keyboards = [u \in Users |-> NoKeyboards]
    /\ handler = [u \in Users |-> NoHandler]

\* ------------------------------------------------------------- Init
Init ==
    /\ BankInit
    /\ variant \in Variants
    /\ ud = [r \in Users |-> 0]
    /\ quiz = [s \in Sid |-> NoQuiz]
    /\ task = [s \in Sid |-> NoTask]
    /\ polls = <<>>
    /\ results = [s \in Sid |-> <<>>]
    /\ ledger = [u \in Users |-> [total_answers |-> 0, correct_answers |-> 0, quizzes_taken |-> 0]]
    /\ active_timers = {}
    /\ nAnswers = 0
    /\ bot_data = [k \in Sid |-> NoEntry]
    /\ jobs = [k \in Sid |-> NoJobs]

\* ------------------------------------------------------------- memory
\* A quiz dict is read again only while user_data holds it or a suspended coroutine
\* will read or write it after its await; any other dict is garbage.
Live(s, u, tk) ==
    \/ \E r \in Users : u[r] = s
    \/ \E t \in Sid : tk[t].q = s /\ tk[t].pc \in {"sending", "countdown", "sleep_next"}

Collect(qz, u, tk) ==
    [s \in Sid |-> IF Live(s, u, tk) THEN qz[s] ELSE [NoQuiz EXCEPT !.alloc = qz[s].alloc]]

\* the new heap: quiz dicts qz, user_data u, coroutines tk
Commit(qz, u, tk) ==
    /\ ud' = u
    /\ task' = tk
    /\ quiz' = Collect(qz, u, tk)

\* ------------------------------------------------------------- Lifechanger / Original
\* send_next_question up to its first await, run by chain t in the context of user r,
\* on the state (qz, u): the new quiz dicts and the new state of the chain
SendNextQuestion(qz, u, r) ==
    LET s == u[r]
        q == qz[s]
    IN IF q.current_index >= Len(q.questions)
       THEN \* end_quiz
            IF variant = "Original" /\ ~q.active
            THEN [quiz |-> qz, task |-> [NoTask EXCEPT !.pc = "done", !.r = r]]
            ELSE LET parts == FinalParticipants(q)
                 IN [quiz |-> [qz EXCEPT ![s].active = FALSE, ![s].participants = parts],
                     task |-> [NoTask EXCEPT !.pc = "ending", !.r = r, !.q = s,
                                             !.parts = parts,
                                             !.msg = Message(SortedParticipants(parts),
                                                             Len(q.questions), q.creator,
                                                             AllAnswers(q.sent_polls) = <<>>)]]
       ELSE [quiz |-> qz,
             task |-> [NoTask EXCEPT !.pc = "sending", !.r = r, !.q = s,
                                     !.ci = q.current_index]]

\* handle_timer_selection (Lifechanger) / start_quiz (Original): a new quiz dict
L_Start(r, qs) ==
    /\ IsL
    /\ FreshSid <= MaxSessions
    /\ LET s == FreshSid
           qz == [quiz EXCEPT ![s] =
                     [NoQuiz EXCEPT !.alloc = TRUE, !.questions = qs, !.active = TRUE,
                                    !.creator = r]]
           u == [ud EXCEPT ![r] = s]
           n == SendNextQuestion(qz, u, r)
       IN IF variant = "Lifechanger"
          THEN \* await asyncio.sleep(1) before send_next_question
               Commit(qz, u, [task EXCEPT ![s] = [NoTask EXCEPT !.pc = "presleep", !.r = r]])
          ELSE Commit(n.quiz, u, [task EXCEPT ![s] = n.task])
    /\ UNCHANGED <<questions_file, user_data, keyboards, handler, bot_data, jobs, variant, polls, results, ledger, active_timers, nAnswers>>

\* the one-second sleep of handle_timer_selection is over
L_PreWake(t) ==
    /\ IsL
    /\ task[t].pc = "presleep"
    /\ LET n == SendNextQuestion(quiz, ud, task[t].r)
       IN Commit(n.quiz, ud, [task EXCEPT ![t] = n.task])
    /\ UNCHANGED <<questions_file, user_data, keyboards, handler, bot_data, jobs, variant, polls, results, ledger, active_timers, nAnswers>>

\* send_poll returned: store the poll, increment the index, sleep
L_PollSent(t) ==
    /\ IsL
    /\ task[t].pc = "sending"
    /\ LET p == Len(polls) + 1
           s == task[t].q
           ci == task[t].ci
       IN /\ polls' = Append(polls, [sid |-> s, qi |-> ci, quest |-> quiz[s].questions[ci + 1]])
          /\ Commit([quiz EXCEPT
                        ![s].sent_polls = Append(@, [poll_id |-> p, question_index |-> ci,
                                                     answers |-> <<>>]),
                        ![s].current_index = ci + 1],
                    [ud EXCEPT ![task[t].r] = s],
                    [task EXCEPT ![t].pc = "sleeping"])
    /\ UNCHANGED <<questions_file, user_data, keyboards, handler, bot_data, jobs, variant, results, ledger, active_timers, nAnswers>>

\* asyncio.sleep(timer_seconds + 2) is over
L_Wake(t) ==
    /\ IsL
    /\ task[t].pc = "sleeping"
    /\ LET r == task[t].r
           n == SendNextQuestion(quiz, ud, r)
       IN IF quiz[ud[r]].active
          THEN Commit(n.quiz, ud, [task EXCEPT ![t] = n.task])
          ELSE Commit(quiz, ud, [task EXCEPT ![t] = [NoTask EXCEPT !.pc = "done", !.r = r]])
    /\ UNCHANGED <<questions_file, user_data, keyboards, handler, bot_data, jobs, variant, polls, results, ledger, active_timers, nAnswers>>

\* quizzes_taken += 1 for every participant of the results
RECURSIVE QuizzesTaken(_, _)
QuizzesTaken(led, parts) ==
    IF parts = <<>> THEN led
    ELSE QuizzesTaken([led EXCEPT ![parts[1].user].quizzes_taken = @ + 1], Tail(parts))

\* the result message was sent; the statistics are updated
L_ResultSent(t) ==
    /\ IsL
    /\ task[t].pc = "ending"
    /\ results' = [results EXCEPT ![task[t].q] = Append(@, task[t].msg)]
    /\ ledger' = QuizzesTaken(ledger, task[t].parts)
    /\ Commit(quiz, ud, [task EXCEPT ![t] = [NoTask EXCEPT !.pc = "done", !.r = task[t].r]])
    /\ UNCHANGED <<questions_file, user_data, keyboards, handler, bot_data, jobs, variant, polls, active_timers, nAnswers>>

\* the quiz dict poll_answer finds: an active quiz of some user holding poll p
FoundQuiz(p) ==
    {s \in Sid : /\ \E r \in Users : ud[r] = s
                 /\ quiz[s].active
                 /\ PollIndex(quiz[s].sent_polls, p) # 0}

\* poll_answer(poll p, user u, option o)
L_PollAnswer(p, u, o) ==
    /\ IsL
    /\ nAnswers < MaxAnswers
    /\ nAnswers' = nAnswers + 1
    /\ IF FoundQuiz(p) = {}
       THEN UNCHANGED <<quiz, ledger>>
       ELSE LET s == CHOOSE x \in FoundQuiz(p) : TRUE
                i == PollIndex(quiz[s].sent_polls, p)
                info == quiz[s].sent_polls[i]
                correct == Answer(quiz[s].questions[info.question_index + 1])
                isc == IsCorrect(o, correct)
            IN /\ quiz' = [quiz EXCEPT
                             ![s].participants = Score(@, u, isc, variant),
                             ![s].sent_polls[i].answers = PutAnswer(@, u, o, isc)]
               /\ ledger' = [ledger EXCEPT
                               ![u].total_answers = @ + 1,
                               ![u].correct_answers = IF isc THEN @ + 1 ELSE @]
    /\ UNCHANGED <<questions_file, user_data, keyboards, handler, bot_data, jobs, variant, ud, task, polls, results, active_timers>>

L_Next ==
    \/ \E r \in Requesters, qs \in QuestionLists : L_Start(r, qs)
    \/ \E t \in Sid : L_PreWake(t)
    \/ \E t \in Sid : L_PollSent(t)
    \/ \E t \in Sid : L_Wake(t)
    \/ \E t \in Sid : L_ResultSent(t)
    \/ \E p \in 1..Len(polls), u \in Users, o \in Options \cup {NoOption} : L_PollAnswer(p, u, o)

\* ------------------------------------------------------------- simple_bot
\* start_quiz up to its await of reply_text("Starting quiz ..."): a new quiz dict
S_Start(r, qs) ==
    /\ IsS
    /\ FreshSid <= MaxSessions
    /\ LET s == FreshSid
       IN Commit([quiz EXCEPT ![s] = [NoQuiz EXCEPT !.alloc = TRUE, !.questions = qs]],
                 [ud EXCEPT ![r] = s],
                 [task EXCEPT ![s] = [NoTask EXCEPT !.pc = "starting", !.r = r]])
    /\ UNCHANGED <<questions_file, user_data, keyboards, handler, bot_data, jobs, variant, polls, results, ledger, active_timers, nAnswers>>

\* start_quiz resumes: context.user_data['quiz']['questions'][0] goes to send_quiz_poll,
\* which awaits send_poll (a KeyError ends the handler when the quiz is gone)
S_Started(t) ==
    /\ IsS
    /\ task[t].pc = "starting"
    /\ LET r == task[t].r
           d == ud[r]
       IN IF d = 0 \/ quiz[d].questions = <<>>
          THEN Commit(quiz, ud, [task EXCEPT ![t] = [NoTask EXCEPT !.pc = "failed", !.r = r]])
          ELSE Commit(quiz, ud, [task EXCEPT ![t] = [NoTask EXCEPT !.pc = "sending", !.r = r,
                                                                   !.src = d, !.qidx = 0,
                                                                   !.quest = quiz[d].questions[1]]])
    /\ UNCHANGED <<questions_file, user_data, keyboards, handler, bot_data, jobs, variant, polls, results, ledger, active_timers, nAnswers>>

\* send_poll returned: current_poll_id is stored in user_data's quiz (a new dict when
\* there is none); send_quiz_poll awaits the countdown message
S_PollSent(t) ==
    /\ IsS
    /\ task[t].pc = "sending"
    /\ LET r == task[t].r
           p == Len(polls) + 1
           d == IF ud[r] # 0 THEN ud[r] ELSE FreshSid
           qz == IF ud[r] # 0 THEN quiz ELSE [quiz EXCEPT ![d] = [NoQuiz EXCEPT !.alloc = TRUE]]
       IN /\ d <= MaxSessions
          /\ polls' = Append(polls, [sid |-> task[t].src, qi |-> task[t].qidx,
                                     quest |-> task[t].quest])
          /\ Commit([qz EXCEPT ![d].current_poll_id = p],
                    [ud EXCEPT ![r] = d],
                    [task EXCEPT ![t] = [NoTask EXCEPT !.pc = "countdown", !.r = r, !.q = d,
                                                         !.poll = p]])
    /\ UNCHANGED <<questions_file, user_data, keyboards, handler, bot_data, jobs, variant, results, ledger, active_timers, nAnswers>>

\* the countdown message was sent: the countdown task is created, current_index is
\* incremented, and the chain sleeps poll_duration + 2 seconds
S_CountdownSent(t) ==
    /\ IsS
    /\ task[t].pc = "countdown"
    /\ LET r == task[t].r
           d == task[t].q
           ci == quiz[d].current_index
           n == Len(quiz[d].questions)
           last == ci >= n - 1 \/ n <= 1
       IN /\ active_timers' = active_timers \cup {task[t].poll}
          /\ Commit([quiz EXCEPT ![d].current_index = ci + 1],
                    [ud EXCEPT ![r] = d],
                    [task EXCEPT ![t] = [NoTask EXCEPT
                        !.pc = IF last THEN "sleep_last" ELSE "sleep_next",
                        !.r = r, !.q = d, !.ci = ci, !.n = n]])
    /\ UNCHANGED <<questions_file, user_data, keyboards, handler, bot_data, jobs, variant, polls, results, ledger, nAnswers>>

\* the sleep after the last question is over: end_quiz for a quiz of several questions.
\* end_quiz replies "No quiz in progress." or "No one participated" and returns, or
\* awaits the reply with the ranking
S_WakeLast(t) ==
    /\ IsS
    /\ task[t].pc = "sleep_last"
    /\ LET r == task[t].r
           d == ud[r]
           done == [NoTask EXCEPT !.pc = "done", !.r = r]
       IN IF task[t].n <= 1 \/ d = 0
          THEN /\ Commit(quiz, ud, [task EXCEPT ![t] = done])
               /\ results' = results
          ELSE IF quiz[d].participants = <<>>
          THEN /\ Commit(quiz, ud, [task EXCEPT ![t] = done])
               /\ results' = [results EXCEPT ![d] =
                                Append(@, Message(<<>>, Len(quiz[d].questions), r, TRUE))]
          ELSE /\ Commit(quiz, ud, [task EXCEPT ![t] = [NoTask EXCEPT
                                        !.pc = "ending", !.r = r, !.src = d,
                                        !.msg = Message(SortedParticipants(quiz[d].participants),
                                                        Len(quiz[d].questions), r, FALSE)]])
               /\ results' = results
    /\ UNCHANGED <<questions_file, user_data, keyboards, handler, bot_data, jobs, variant, polls, ledger, active_timers, nAnswers>>

\* the ranking was sent: context.user_data.pop('quiz', None)
S_ResultSent(t) ==
    /\ IsS
    /\ task[t].pc = "ending"
    /\ results' = [results EXCEPT ![task[t].src] = Append(@, task[t].msg)]
    /\ Commit(quiz, [ud EXCEPT ![task[t].r] = 0],
              [task EXCEPT ![t] = [NoTask EXCEPT !.pc = "done", !.r = task[t].r]])
    /\ UNCHANGED <<questions_file, user_data, keyboards, handler, bot_data, jobs, variant, polls, ledger, active_timers, nAnswers>>

\* the sleep after a question that is not the last is over: the next question of the
\* chain's own quiz dict is sent if user_data still has a quiz
S_WakeNext(t) ==
    /\ IsS
    /\ task[t].pc = "sleep_next"
    /\ LET r == task[t].r
           d == task[t].q
           next_index == quiz[d].current_index
       IN IF ud[r] # 0 /\ next_index < Len(quiz[d].questions)
          THEN Commit(quiz, ud, [task EXCEPT ![t] = [NoTask EXCEPT !.pc = "sending", !.r = r,
                                                         !.src = d, !.qidx = next_index,
                                                         !.quest = quiz[d].questions[next_index + 1]]])
          ELSE Commit(quiz, ud, [task EXCEPT ![t] = [NoTask EXCEPT !.pc = "done", !.r = r]])
    /\ UNCHANGED <<questions_file, user_data, keyboards, handler, bot_data, jobs, variant, polls, results, ledger, active_timers, nAnswers>>

\* the question handle_quiz_poll_answer judges an answer of user u by: index
\* current_index - 1 of the quiz in u's own user_data (0: none)
JudgedIndex(u) ==
    IF ud[u] = 0 THEN 0
    ELSE IF quiz[ud[u]].current_index - 1 >= 0
            /\ quiz[ud[u]].current_index - 1 < Len(quiz[ud[u]].questions)
         THEN quiz[ud[u]].current_index
         ELSE 0

\* handle_quiz_poll_answer(poll p, user u, option o)
S_Answer(p, u, o) ==
    /\ IsS
    /\ nAnswers < MaxAnswers
    /\ nAnswers' = nAnswers + 1
    /\ IF ud[u] # 0 /\ quiz[ud[u]].current_poll_id = p /\ JudgedIndex(u) # 0
       THEN LET d == ud[u]
                isc == o = Answer(quiz[d].questions[JudgedIndex(u)])
            IN quiz' = [quiz EXCEPT ![d].participants = Score(@, u, isc, variant)]
       ELSE quiz' = quiz
    /\ UNCHANGED <<questions_file, user_data, keyboards, handler, bot_data, jobs, variant, ud, task, polls, results, ledger, active_timers>>

\* add_question_answer ends with context.user_data.clear()
S_Clear(r) ==
    /\ IsS
    /\ ud[r] # 0
    /\ Commit(quiz, [ud EXCEPT ![r] = 0], task)
    /\ UNCHANGED <<questions_file, user_data, keyboards, handler, bot_data, jobs, variant, polls, results, ledger, active_timers, nAnswers>>

S_Next ==
    \/ \E r \in Requesters, qs \in QuestionLists : S_Start(r, qs)
    \/ \E t \in Sid : S_Started(t)
    \/ \E t \in Sid : S_PollSent(t)
    \/ \E t \in Sid : S_CountdownSent(t)
    \/ \E t \in Sid : S_WakeLast(t)
    \/ \E t \in Sid : S_WakeNext(t)
    \/ \E t \in Sid : S_ResultSent(t)
    \/ \E p \in 1..Len(polls), u \in Users, o \in Options \cup {NoOption} : S_Answer(p, u, o)
    \/ \E r \in Requesters : S_Clear(r)

Next == L_Next \/ S_Next

Spec == Init /\ [][Next]_vars

\* Original.py has no sleep between the start and the first question
O_Next ==
    \/ \E r \in Requesters, qs \in QuestionLists : L_Start(r, qs)
    \/ \E t \in Sid : L_PollSent(t)
    \/ \E t \in Sid : L_Wake(t)
    \/ \E t \in Sid : L_ResultSent(t)
    \/ \E p \in 1..Len(polls), u \in Users, o \in Options \cup {NoOption} : L_PollAnswer(p, u, o)

InitLifechanger == Init /\ variant = "Lifechanger"
InitOriginal == Init /\ variant = "Original"
InitSimple == Init /\ variant = "simple_bot"

SpecLifechanger == InitLifechanger /\ [][L_Next]_vars
SpecOriginal == InitOriginal /\ [][O_Next]_vars
SpecSimple == InitSimple /\ [][S_Next]_vars

\* ------------------------------------------------------------- transport failures
\* send_poll raises: the exception leaves send_next_question and the handler that
\* called it; nothing is stored and nothing catches it
L_PollFailed(t) ==
    /\ IsL
    /\ task[t].pc = "sending"
    /\ Commit(quiz, ud, [task EXCEPT ![t] = [NoTask EXCEPT !.pc = "send_failed", !.r = task[t].r,
                                                         !.q = task[t].q, !.ci = task[t].ci]])
    /\ UNCHANGED <<questions_file, user_data, keyboards, handler, bot_data, jobs, variant, polls, results, ledger, active_timers, nAnswers>>

\* send_message of the results raises: Lifechanger catches it and replies to the
\* message of the update instead; in Original the exception leaves end_quiz before the
\* statistics are updated
L_ResultFailed(t) ==
    /\ IsL
    /\ task[t].pc = "ending"
    /\ IF variant = "Lifechanger"
       THEN Commit(quiz, ud, [task EXCEPT ![t].pc = "ending_alt"])
       ELSE Commit(quiz, ud, [task EXCEPT ![t] = [NoTask EXCEPT !.pc = "result_failed",
                                                              !.r = task[t].r, !.q = task[t].q]])
    /\ UNCHANGED <<questions_file, user_data, keyboards, handler, bot_data, jobs, variant, polls, results, ledger, active_timers, nAnswers>>

\* the reply with the results was sent; the statistics are updated
L_AltSent(t) ==
    /\ variant = "Lifechanger"
    /\ task[t].pc = "ending_alt"
    /\ results' = [results EXCEPT ![task[t].q] = Append(@, task[t].msg)]
    /\ ledger' = QuizzesTaken(ledger, task[t].parts)
    /\ Commit(quiz, ud, [task EXCEPT ![t] = [NoTask EXCEPT !.pc = "done", !.r = task[t].r]])
    /\ UNCHANGED <<questions_file, user_data, keyboards, handler, bot_data, jobs, variant, polls, active_timers, nAnswers>>

\* the reply raises too: the exception is logged; the statistics are updated
L_AltFailed(t) ==
    /\ variant = "Lifechanger"
    /\ task[t].pc = "ending_alt"
    /\ ledger' = QuizzesTaken(ledger, task[t].parts)
    /\ Commit(quiz, ud, [task EXCEPT ![t] = [NoTask EXCEPT !.pc = "result_failed",
                                                         !.r = task[t].r, !.q = task[t].q]])
    /\ UNCHANGED <<questions_file, user_data, keyboards, handler, bot_data, jobs, variant, polls, results, active_timers, nAnswers>>

LF_Next ==
    \/ L_Next
    \/ \E t \in Sid : L_PollFailed(t)
    \/ \E t \in Sid : L_ResultFailed(t)
    \/ \E t \in Sid : L_AltSent(t)
    \/ \E t \in Sid : L_AltFailed(t)

OF_Next ==
    \/ O_Next
    \/ \E t \in Sid : L_PollFailed(t)
    \/ \E t \in Sid : L_ResultFailed(t)

SpecLifechangerFail == InitLifechanger /\ [][LF_Next]_vars
SpecOriginalFail == InitOriginal /\ [][OF_Next]_vars

\* ------------------------------------------------------------- Simple_bot
\* Simple_bot.py runs one question per quiz.  The quiz dict is stored in bot_data under
\* a key made of the chat id and the id of the "Starting quiz" message; keys are
\* numbered in the order of their creation.  A chat is named by its type.
IsB == variant = "Simple_bot"
ChatTypes == {"private", "group"}
\* the users who can vote in a chat: a private chat is the chat with user 1
Members(c) == IF c = "private" THEN {1} ELSE Users
\* the timer buttons: "No Timer" and "15 seconds"
Timers == {0, 15}
\* the message ids the transport gives to poll messages
MessageIds == {1, 2}
FreshKey == Cardinality({k \in Sid : bot_data[k].created}) + 1

\* points of an answer, in halves: +1, or -0.5 with negative marking
Points(o, correct, nm) == IF o = correct THEN 2 ELSE IF nm THEN 0 - 1 ELSE 0

\* sorted(participants.items(), key=score, reverse=True), stable
RECURSIVE InsertByScore(_, _)
InsertByScore(sorted, e) ==
    IF sorted = <<>> THEN <<e>>
    ELSE IF e.score > sorted[1].score THEN <<e>> \o sorted
    ELSE <<sorted[1]>> \o InsertByScore(Tail(sorted), e)

RECURSIVE RankByScore(_)
RankByScore(parts) ==
    IF parts = <<>> THEN <<>>
    ELSE InsertByScore(RankByScore(SubSeq(parts, 1, Len(parts) - 1)), parts[Len(parts)])

InitBotData ==
    /\ BankInit
    /\ variant = "Simple_bot"
    /\ ud = [r \in Users |-> 0]
    /\ quiz = [s \in Sid |-> NoQuiz]
    /\ task = [s \in Sid |-> NoTask]
    /\ polls = <<>>
    /\ results = [s \in Sid |-> <<>>]
    /\ ledger = [u \in Users |-> [score |-> 0, questions_answered |-> 0, correct_answers |-> 0]]
    /\ active_timers = {}
    /\ nAnswers = 0
    /\ bot_data = [k \in Sid |-> NoEntry]
    /\ jobs = [k \in Sid |-> NoJobs]

\* handle_timer_selection up to its await of send_poll: the quiz dict of question q is
\* stored in bot_data under a new key
B_Start(c, tm, q) ==
    /\ IsB
    /\ FreshKey <= MaxSessions
    /\ LET k == FreshKey
       IN /\ bot_data' = [bot_data EXCEPT ![k] =
                            [NoEntry EXCEPT !.created = TRUE, !.present = TRUE, !.chat = c,
                                            !.correct_option = Answer(q), !.timer = tm,
                                            !.question_id = q]]
          /\ task' = [task EXCEPT ![k] = [NoTask EXCEPT !.pc = "sending", !.q = k]]
    /\ UNCHANGED <<questions_file, user_data, keyboards, handler, variant, ud, quiz, polls, results, ledger, active_timers, nAnswers, jobs>>

\* send_poll returned the poll message m: its message id is stored as poll_message_id
\* and, with a timer, end_quiz_callback is scheduled.  polls[p] is the poll with id p.
B_PollSent(k, m) ==
    /\ IsB
    /\ task[k].pc = "sending"
    /\ \A p \in 1..Len(polls) : polls[p].chat = bot_data[k].chat => polls[p].mid # m
    /\ polls' = Append(polls, [key |-> k, chat |-> bot_data[k].chat, mid |-> m, voters |-> {}])
    /\ bot_data' = [bot_data EXCEPT ![k].poll_message_id = m]
    /\ jobs' = [jobs EXCEPT ![k].scheduled = IF bot_data[k].timer > 0 THEN @ + 1 ELSE @]
    /\ task' = [task EXCEPT ![k] = [NoTask EXCEPT !.pc = "done"]]
    /\ UNCHANGED <<questions_file, user_data, keyboards, handler, variant, ud, quiz, results, ledger, active_timers, nAnswers>>

\* the key handle_quiz_answer finds for poll id p: the first entry of bot_data whose
\* poll_message_id equals int(poll_id) (0: none)
QuizKey(p) ==
    LET found == {k \in Sid : /\ bot_data[k].present
                              /\ bot_data[k].poll_message_id # 0
                              /\ bot_data[k].poll_message_id = p}
    IN IF found = {} THEN 0 ELSE CHOOSE k \in found : \A j \in found : k <= j

\* update_user_score
UpdateUserScore(led, u, points) ==
    [led EXCEPT ![u].score = @ + points,
                ![u].questions_answered = @ + 1,
                ![u].correct_answers = IF points > 0 THEN @ + 1 ELSE @]

\* user u votes option o in poll p and handle_quiz_answer gets the answer.  Without a
\* timer, in a private chat, end_quiz_callback is scheduled two seconds later (get_chat
\* is awaited before; nothing of the quiz is read after that await).
B_QuizAnswer(p, u, o) ==
    /\ IsB
    /\ nAnswers < MaxAnswers
    /\ nAnswers' = nAnswers + 1
    /\ u \in Members(polls[p].chat)
    /\ polls' = [polls EXCEPT ![p].voters = @ \cup {u}]
    /\ IF QuizKey(p) = 0
       THEN UNCHANGED <<bot_data, ledger, jobs>>
       ELSE LET k == QuizKey(p)
                d == bot_data[k]
                points == Points(o, d.correct_option, d.negative_marking)
                ps == IF IndexOf(d.participants, u) = 0
                      THEN Append(d.participants, [user |-> u, score |-> 0, correct |-> FALSE])
                      ELSE d.participants
                i == IndexOf(ps, u)
            IN /\ bot_data' = [bot_data EXCEPT ![k].participants =
                                  [ps EXCEPT ![i].score = points,
                                             ![i].correct = (o = d.correct_option)]]
               /\ ledger' = UpdateUserScore(ledger, u, points)
               /\ jobs' = [jobs EXCEPT ![k].scheduled = IF d.timer = 0 /\ d.chat = "private"
                                                        THEN @ + 1 ELSE @]
    /\ UNCHANGED <<questions_file, user_data, keyboards, handler, variant, ud, quiz, task, results, active_timers>>

\* a job of the job queue runs end_quiz_callback for key k: nothing when the key is
\* gone; "Quiz ended! No one participated." and return when participants is empty;
\* otherwise the ranking is compiled and send_message awaited
B_JobFire(k) ==
    /\ IsB
    /\ jobs[k].scheduled > 0
    /\ IF ~bot_data[k].present
       THEN /\ jobs' = [jobs EXCEPT ![k].scheduled = @ - 1]
            /\ UNCHANGED results
       ELSE IF bot_data[k].participants = <<>>
       THEN /\ jobs' = [jobs EXCEPT ![k].scheduled = @ - 1]
            /\ results' = [results EXCEPT ![k] = Append(@, Message(<<>>, 1, 0, TRUE))]
       ELSE /\ jobs' = [jobs EXCEPT ![k].scheduled = @ - 1,
                                    ![k].sending = Append(@, Message(RankByScore(bot_data[k].participants),
                                                                     1, 0, FALSE))]
            /\ UNCHANGED results
    /\ UNCHANGED <<questions_file, user_data, keyboards, handler, variant, ud, quiz, task, polls, ledger, active_timers, nAnswers, bot_data>>

\* a ranking was sent: the key is deleted from bot_data if it is still there
B_ResultSent(k, i) ==
    /\ IsB
    /\ i \in 1..Len(jobs[k].sending)
    /\ results' = [results EXCEPT ![k] = Append(@, jobs[k].sending[i])]
    /\ jobs' = [jobs EXCEPT ![k].sending =
                   SubSeq(@, 1, i - 1) \o SubSeq(@, i + 1, Len(@))]
    /\ bot_data' = [bot_data EXCEPT ![k] = [NoEntry EXCEPT !.created = TRUE]]
    /\ UNCHANGED <<questions_file, user_data, keyboards, handler, variant, ud, quiz, task, polls, ledger, active_timers, nAnswers>>

B_Next ==
    \/ \E c \in ChatTypes, tm \in Timers, q \in 1..MaxQuestions : B_Start(c, tm, q)
    \/ \E k \in Sid, m \in MessageIds : B_PollSent(k, m)
    \/ \E p \in 1..Len(polls), u \in Users, o \in Options \cup {NoOption} : B_QuizAnswer(p, u, o)
    \/ \E k \in Sid : B_JobFire(k)
    \/ \E k \in Sid, i \in 1..MaxAnswers : B_ResultSent(k, i)

SpecBotData == InitBotData /\ [][B_Next]_vars

\* the transport answers and the job queue runs every job it holds
FairSpecBotData ==
    /\ SpecBotData
    /\ \A k \in Sid : WF_vars(\E m \in MessageIds : B_PollSent(k, m))
    /\ \A k \in Sid : WF_vars(B_JobFire(k))
    /\ \A k \in Sid : WF_vars(\E i \in 1..MaxAnswers : B_ResultSent(k, i))

\* ------------------------------------------------------------- repeated poll ids
\* send_poll returned a poll whose id p the transport has used before: the entry is
\* assigned under the key p (a key already in the dict keeps its place and gets
\* the new value), the index is incremented, the chain sleeps
L_PollSentAgain(t, p) ==
    /\ IsL
    /\ task[t].pc = "sending"
    /\ p \in 1..Len(polls)
    /\ LET s == task[t].q
           ci == task[t].ci
           i == PollIndex(quiz[s].sent_polls, p)
           rec == [poll_id |-> p, question_index |-> ci, answers |-> <<>>]
       IN Commit([quiz EXCEPT
                     ![s].sent_polls = IF i = 0 THEN Append(@, rec) ELSE [@ EXCEPT ![i] = rec],
                     ![s].current_index = ci + 1],
                 [ud EXCEPT ![task[t].r] = s],
                 [task EXCEPT ![t].pc = "sleeping"])
    /\ UNCHANGED <<questions_file, user_data, keyboards, handler, bot_data, jobs, variant, polls, results, ledger, active_timers, nAnswers>>

LD_Next ==
    \/ \E t \in Sid : L_PollSent(t)
    \/ \E t \in Sid, p \in 1..MaxSessions * MaxQuestions : L_PollSentAgain(t, p)
    \/ \E t \in Sid : L_Wake(t)
    \/ \E t \in Sid : L_ResultSent(t)
    \/ \E p \in 1..Len(polls), u \in Users, o \in Options \cup {NoOption} : L_PollAnswer(p, u, o)

\* ------------------------------------------------------------- invalid options
\* option ids that are no option of a question: none chosen, or the index after the last
InvalidOptions == {NoOption, Cardinality(Options)}

\* the bots with answer events that carry any option id
AnyOptionNext ==
    \/ Next
    \/ \E p \in 1..Len(polls), u \in Users, o \in InvalidOptions : L_PollAnswer(p, u, o)
    \/ \E p \in 1..Len(polls), u \in Users, o \in InvalidOptions : S_Answer(p, u, o)

InitAnyOption == Init /\ variant \in {"Lifechanger", "simple_bot"}

SpecAnyOption == InitAnyOption /\ [][AnyOptionNext]_vars

\* ------------------------------------------------------------- the end of a quiz
\* The states in which the chain of a quiz sleeps after its last question, drawn
\* directly: every poll of the quiz holds the answers of some users, each user once.
AnswerRecords == [user : Users, option_id : Options \cup {NoOption}, is_correct : BOOLEAN]

AnswerLists ==
    {a \in UNION {[1..n -> AnswerRecords] : n \in 0..Cardinality(Users)} :
        \A i, j \in 1..Len(a) : i # j => a[i].user # a[j].user}

\* the scoreboard and the statistics poll_answer leaves after the answers recs
RECURSIVE ScoreAll(_, _, _)
ScoreAll(parts, recs, v) ==
    IF recs = <<>> THEN parts
    ELSE ScoreAll(Score(parts, recs[1].user, recs[1].is_correct, v), Tail(recs), v)

LedgerAfter(recs) ==
    [u \in Users |->
        [total_answers |-> Cardinality({i \in 1..Len(recs) : recs[i].user = u}),
         correct_answers |-> Cardinality({i \in 1..Len(recs) :
                                             recs[i].user = u /\ recs[i].is_correct}),
         quizzes_taken |-> 0]]

\* simple_bot counts the answers of the requester only (user_data is per user)
SimpleScoreboards(r, n) ==
    {<<>>} \cup {<<[user |-> r, correct |-> c, answered |-> a, negq |-> 0]>> :
                    a \in 1..n, c \in 0..n}

R_Init ==
    /\ BankInit
    /\ variant \in Variants
    /\ \E qs \in QuestionLists :
         LET n == Len(qs)
         IN /\ polls = [i \in 1..n |-> [sid |-> 1, qi |-> i - 1, quest |-> qs[i]]]
            /\ IF IsL
               THEN \E f \in [1..n -> AnswerLists] :
                      LET sp == [i \in 1..n |-> [poll_id |-> i, question_index |-> i - 1,
                                                 answers |-> f[i]]]
                          q == [NoQuiz EXCEPT !.alloc = TRUE, !.questions = qs,
                                              !.current_index = n, !.active = TRUE,
                                              !.creator = 1, !.sent_polls = sp,
                                              !.participants =
                                                  ScoreAll(<<>>, AllAnswers(sp), variant)]
                      IN /\ \A i \in 1..n : \A a \in 1..Len(f[i]) :
                               f[i][a].is_correct = IsCorrect(f[i][a].option_id, Answer(qs[i]))
                         /\ quiz = [s \in Sid |-> IF s = 1 THEN q ELSE NoQuiz]
                         /\ task = [s \in Sid |->
                                      IF s = 1
                                      THEN [NoTask EXCEPT !.pc = "sleeping", !.r = 1, !.q = 1,
                                                          !.ci = n - 1]
                                      ELSE NoTask]
                         /\ ledger = LedgerAfter(AllAnswers(sp))
                         /\ nAnswers = Len(AllAnswers(sp))
                         /\ active_timers = {}
               ELSE \E parts \in SimpleScoreboards(1, n) :
                      LET q == [NoQuiz EXCEPT !.alloc = TRUE, !.questions = qs,
                                              !.current_index = n, !.current_poll_id = n,
                                              !.participants = parts]
                      IN /\ parts # <<>> => parts[1].correct <= parts[1].answered
                         /\ quiz = [s \in Sid |-> IF s = 1 THEN q ELSE NoQuiz]
                         /\ task = [s \in Sid |->
                                      IF s = 1
                                      THEN [NoTask EXCEPT !.pc = "sleep_last", !.r = 1, !.q = 1,
                                                          !.ci = n - 1, !.n = n]
                                      ELSE NoTask]
                         /\ ledger = LedgerAfter(<<>>)
                         /\ nAnswers = IF parts = <<>> THEN 0 ELSE parts[1].answered
                         /\ active_timers = 1..n
    /\ ud = [r \in Users |-> IF r = 1 THEN 1 ELSE 0]
    /\ results = [s \in Sid |-> <<>>]
    /\ bot_data = [k \in Sid |-> NoEntry]
    /\ jobs = [k \in Sid |-> NoJobs]

\* The states in which the poll of the first of two questions holds the answers of
\* some users and the chain awaits send_poll for the second question.
SecondDispatchInit ==
    /\ BankInit
    /\ variant \in {"Lifechanger", "Original"}
    /\ \E f \in AnswerLists :
         LET sp == <<[poll_id |-> 1, question_index |-> 0, answers |-> f]>>
             q == [NoQuiz EXCEPT !.alloc = TRUE, !.questions = <<1, 2>>,
                                 !.current_index = 1, !.active = TRUE, !.creator = 1,
                                 !.sent_polls = sp,
                                 !.participants = ScoreAll(<<>>, f, variant)]
         IN /\ \A a \in 1..Len(f) : f[a].is_correct = IsCorrect(f[a].option_id, Answer(1))
            /\ quiz = [s \in Sid |-> IF s = 1 THEN q ELSE NoQuiz]
            /\ ledger = LedgerAfter(f)
            /\ nAnswers = Len(f)
    /\ task = [s \in Sid |-> IF s = 1
                             THEN [NoTask EXCEPT !.pc = "sending", !.r = 1, !.q = 1, !.ci = 1]
                             ELSE NoTask]
    /\ polls = <<[sid |-> 1, qi |-> 0, quest |-> 1]>>
    /\ ud = [r \in Users |-> IF r = 1 THEN 1 ELSE 0]
    /\ results = [s \in Sid |-> <<>>]
    /\ active_timers = {}
    /\ bot_data = [k \in Sid |-> NoEntry]
    /\ jobs = [k \in Sid |-> NoJobs]

SpecPollSentAgain == SecondDispatchInit /\ [][LD_Next]_vars

\* ------------------------------------------------------------- question bank handlers
\* The stores of a handler of the poll conversion are taken at its end: the sends it
\* awaits before them hold no state of the question bank.  A button of an inline
\* keyboard can be pressed as long as the keyboard is in the chat.
quizvars == <<variant, ud, quiz, task, polls, results, ledger, active_timers, nAnswers,
              bot_data, jobs>>

PollOptionCounts == 2..MaxOptions      \* a Telegram poll has at least two options
CustomIds == {2, 3}                    \* the ids a user types or picks

RECURSIVE MaxId(_)
MaxId(qs) ==
    IF qs = <<>> THEN 0
    ELSE LET m == MaxId(Tail(qs)) IN IF qs[1].id > m THEN qs[1].id ELSE m

GetNextQuestionId(qs) == IF qs = <<>> THEN 1 ELSE MaxId(qs) + 1

\* the index of the first question with this id, 0 if there is none
IndexById(qs, id) ==
    IF \E i \in 1..Len(qs) : qs[i].id = id
    THEN CHOOSE i \in 1..Len(qs) : qs[i].id = id /\ \A j \in 1..(i - 1) : qs[j].id # id
    ELSE 0

DeleteQuestionById(qs, id) == SelectSeq(qs, LAMBDA q : q.id # id)

Idle(u) == handler[u].pc = "none"

\* /poll2q in reply to a poll of n options; c is the correct option of a quiz poll,
\* NoKey for a regular poll.  A quiz poll gets the category keyboard, a regular poll
\* the keyboard of its n options, and the key poll_correct_answer is left as it is.
L_PollToQuestion(u, n, c) ==
    /\ variant = "Lifechanger" /\ Idle(u)
    /\ IF c # NoKey
       THEN /\ keyboards[u].category < MaxKeyboards
            /\ user_data' = [user_data EXCEPT ![u].poll_options = n,
                                              ![u].poll_correct_answer = c]
            /\ keyboards' = [keyboards EXCEPT ![u].category = @ + 1]
       ELSE /\ user_data' = [user_data EXCEPT ![u].poll_options = n]
            /\ keyboards' = [keyboards EXCEPT ![u].answer = @ \cup {n}]
    /\ UNCHANGED <<quizvars, questions_file, handler>>

\* button poll_answer_a of the keyboard of k options: the answer is stored, then
\* options[correct_answer] is formatted (IndexError when a is no index of the stored
\* options), the keyboard is replaced by the confirmation and the category keyboard
\* is sent
L_HandlePollAnswerCallback(u, k, a) ==
    /\ variant = "Lifechanger" /\ Idle(u)
    /\ k \in keyboards[u].answer /\ a < k
    /\ user_data' = [user_data EXCEPT ![u].poll_correct_answer = a]
    /\ IF a < user_data[u].poll_options
       THEN /\ keyboards[u].category < MaxKeyboards
            /\ keyboards' = [keyboards EXCEPT ![u].answer = @ \ {k},
                                              ![u].category = @ + 1]
       ELSE keyboards' = keyboards
    /\ UNCHANGED <<quizvars, questions_file, handler>>

\* button pollcat_<category>: the keyboard is replaced and the id keyboard is sent
L_HandlePollCategorySelection(u) ==
    /\ variant = "Lifechanger" /\ Idle(u)
    /\ keyboards[u].category > 0 /\ keyboards[u].ids < MaxKeyboards
    /\ keyboards' = [keyboards EXCEPT ![u].category = @ - 1, ![u].ids = @ + 1]
    /\ UNCHANGED <<quizvars, questions_file, user_data, handler>>

\* the question save_final_poll_question builds from the keys of d
L_QuestionData(d, qs, custom_id) ==
    [id |-> IF custom_id # NoKey THEN custom_id ELSE GetNextQuestionId(qs),
     options |-> IF d.poll_options = NoKey THEN 0 ELSE d.poll_options,
     answer |-> IF d.poll_correct_answer = NoKey THEN 0 ELSE d.poll_correct_answer]

\* save_final_poll_question: a question with the id is replaced, otherwise the
\* question is appended
L_SaveFinalPollQuestion(qs, question_data) ==
    LET existing_index == IndexById(qs, question_data.id)
    IN IF existing_index > 0 THEN [qs EXCEPT ![existing_index] = question_data]
       ELSE Append(qs, question_data)

\* the confirmation formats options[correct_answer]
Formats(q) == q.answer < q.options

\* button pollid_auto: the question is saved under the next id; the confirmation
\* replaces the keyboard and the keys are deleted
L_HandlePollIdSelection(u) ==
    /\ variant = "Lifechanger" /\ Idle(u)
    /\ keyboards[u].ids > 0
    /\ LET q == L_QuestionData(user_data[u], questions_file, NoKey)
       IN /\ Len(questions_file) < MaxBank
          /\ questions_file' = L_SaveFinalPollQuestion(questions_file, q)
          /\ IF Formats(q)
             THEN /\ keyboards' = [keyboards EXCEPT ![u].ids = @ - 1]
                  /\ user_data' = [user_data EXCEPT ![u].poll_options = NoKey,
                                                    ![u].poll_correct_answer = NoKey,
                                                    ![u].waiting_for_custom_id = FALSE]
             ELSE UNCHANGED <<keyboards, user_data>>
    /\ UNCHANGED <<quizvars, handler>>

\* buttons pollid_custom and pollcustom_input: the keyboard is replaced by the
\* request for an id
L_HandlePollCustomSelection(u) ==
    /\ variant = "Lifechanger" /\ Idle(u)
    /\ keyboards[u].ids > 0
    /\ keyboards' = [keyboards EXCEPT ![u].ids = @ - 1]
    /\ user_data' = [user_data EXCEPT ![u].waiting_for_custom_id = TRUE]
    /\ UNCHANGED <<quizvars, questions_file, handler>>

\* a number sent while waiting_for_custom_id: the question is saved under it
L_HandleCustomIdInput(u, custom_id) ==
    /\ variant = "Lifechanger" /\ Idle(u)
    /\ user_data[u].waiting_for_custom_id
    /\ LET q == L_QuestionData(user_data[u], questions_file, custom_id)
       IN /\ IndexById(questions_file, custom_id) = 0 => Len(questions_file) < MaxBank
          /\ questions_file' = L_SaveFinalPollQuestion(questions_file, q)
          /\ user_data' = IF Formats(q)
                          THEN [user_data EXCEPT ![u].poll_options = NoKey,
                                                 ![u].poll_correct_answer = NoKey,
                                                 ![u].waiting_for_custom_id = FALSE]
                          ELSE [user_data EXCEPT ![u].waiting_for_custom_id = FALSE]
    /\ UNCHANGED <<quizvars, keyboards, handler>>

\* /edit <id>, or the id sent in state EDIT_SELECT
L_EditQuestionSelect(u, id) ==
    /\ variant = "Lifechanger" /\ Idle(u)
    /\ user_data[u].state \in {"END", "EDIT_SELECT"}
    /\ user_data' = IF IndexById(questions_file, id) > 0
                    THEN [user_data EXCEPT ![u].edit_question_id = id,
                                           ![u].state = "EDIT_QUESTION"]
                    ELSE [user_data EXCEPT ![u].state = "EDIT_SELECT"]
    /\ UNCHANGED <<quizvars, questions_file, keyboards, handler>>

EditFields == {"options", "answer"}

L_EditQuestionField(u, f) ==
    /\ variant \in {"Lifechanger", "Original"} /\ Idle(u)
    /\ user_data[u].state = "EDIT_QUESTION"
    /\ user_data' = [user_data EXCEPT ![u].edit_field = f, ![u].state = "EDIT_OPTIONS"]
    /\ UNCHANGED <<quizvars, questions_file, keyboards, handler>>

\* the options of q replaced by n options: the answer index is reset to 0 when it is
\* no index of the new options
WithOptions(q, n) == [q EXCEPT !.options = n, !.answer = IF @ >= n THEN 0 ELSE @]

\* edit_question_update: the list is loaded and the question found by its id; new
\* options (x of them) are stored in the loaded list, a message is sent and the list
\* is saved after it; a new answer index x is stored and saved at once
L_EditQuestionUpdate(u, x) ==
    /\ variant = "Lifechanger" /\ Idle(u)
    /\ user_data[u].state = "EDIT_OPTIONS"
    /\ LET questions == questions_file
           question_index == IndexById(questions, user_data[u].edit_question_id)
       IN IF question_index = 0
          THEN /\ user_data' = [user_data EXCEPT ![u].state = "END"]
               /\ UNCHANGED <<questions_file, handler>>
          ELSE IF user_data[u].edit_field = "options"
          THEN IF x < 2
               THEN UNCHANGED <<questions_file, user_data, handler>>
               ELSE /\ handler' = [handler EXCEPT ![u] =
                           [pc |-> "saving",
                            questions |-> [questions EXCEPT ![question_index] =
                                              WithOptions(@, x)]]]
                    /\ UNCHANGED <<questions_file, user_data>>
          ELSE IF x < 0 \/ x >= questions[question_index].options
               THEN UNCHANGED <<questions_file, user_data, handler>>
               ELSE /\ questions_file' = [questions EXCEPT ![question_index].answer = x]
                    /\ user_data' = [user_data EXCEPT ![u].state = "END"]
                    /\ UNCHANGED handler
    /\ UNCHANGED <<quizvars, keyboards>>

\* the message after the new options was sent: save_questions(questions)
L_EditSaved(u) ==
    /\ variant = "Lifechanger"
    /\ handler[u].pc = "saving"
    /\ questions_file' = handler[u].questions
    /\ user_data' = [user_data EXCEPT ![u].state = "END"]
    /\ handler' = [handler EXCEPT ![u] = NoHandler]
    /\ UNCHANGED <<quizvars, keyboards>>

\* button delete_yes_<id> (Lifechanger), delete_<id> (Original)
L_DeleteCallback(u, id) ==
    /\ variant \in {"Lifechanger", "Original"} /\ Idle(u)
    /\ questions_file' = DeleteQuestionById(questions_file, id)
    /\ UNCHANGED <<quizvars, user_data, keyboards, handler>>

\* the edit conversation is checked for the first question, one or two new options
\* or answer index 1 or 2, next to deletions of the other questions and the
\* conversion of a quiz poll of two options
EditIds == {1}
EditInputs == {1, 2}
DeleteIds == {2, 3}

\* user 1 edits; user 2 converts polls and deletes
Editors == {1}
Converters == {2}

\* the poll conversion of Lifechanger
LC_Next ==
    \/ \E u \in Converters, n \in PollOptionCounts, c \in {NoKey} \cup (0..(MaxOptions - 1)) :
          c < n /\ L_PollToQuestion(u, n, c)
    \/ \E u \in Converters, k \in PollOptionCounts, a \in 0..(MaxOptions - 1) :
          L_HandlePollAnswerCallback(u, k, a)
    \/ \E u \in Converters : L_HandlePollCategorySelection(u)
    \/ \E u \in Converters : L_HandlePollIdSelection(u)
    \/ \E u \in Converters : L_HandlePollCustomSelection(u)
    \/ \E u \in Converters, c \in CustomIds : L_HandleCustomIdInput(u, c)

SpecConvertLifechanger == InitLifechanger /\ [][LC_Next]_vars

\* the edit conversation of Lifechanger, next to a poll conversion and the deletions
\* of another user
LE_Next ==
    \/ \E u \in Editors, id \in EditIds : L_EditQuestionSelect(u, id)
    \/ \E u \in Editors, f \in EditFields : L_EditQuestionField(u, f)
    \/ \E u \in Editors, x \in EditInputs : L_EditQuestionUpdate(u, x)
    \/ \E u \in Editors : L_EditSaved(u)
    \/ \E u \in Converters, id \in DeleteIds : L_DeleteCallback(u, id)
    \/ \E u \in Converters : L_PollToQuestion(u, 2, 1)
    \/ \E u \in Converters : L_HandlePollCategorySelection(u)
    \/ \E u \in Converters : L_HandlePollIdSelection(u)

SpecEditLifechanger == InitLifechanger /\ [][LE_Next]_vars

\* ---- Original
\* /poll2q in reply to a poll of n options: save_poll_as_question stores
\* pending_question for a quiz poll and sends the category keyboard; a regular poll
\* is stored as pending_poll and gets the keyboard of its n options
O_PollToQuestion(u, n, c) ==
    /\ variant = "Original" /\ Idle(u)
    /\ IF c # NoKey
       THEN /\ keyboards[u].category < MaxKeyboards
            /\ user_data' = [user_data EXCEPT ![u].pending_question =
                                [present |-> TRUE, options |-> n, answer |-> c]]
            /\ keyboards' = [keyboards EXCEPT ![u].category = @ + 1]
       ELSE /\ user_data' = [user_data EXCEPT ![u].pending_poll = n]
            /\ keyboards' = [keyboards EXCEPT ![u].answer = @ \cup {n}]
    /\ UNCHANGED <<quizvars, questions_file, handler>>

\* button poll_answer_a of the keyboard of k options: without pending_poll the
\* keyboard is replaced by an error; otherwise save_poll_as_question stores
\* pending_question with the options of pending_poll and answer a, formats
\* options[correct_answer] (IndexError when a is no index), sends the category
\* keyboard in a new message, and pending_poll is deleted
O_HandlePollAnswerCallback(u, k, a) ==
    /\ variant = "Original" /\ Idle(u)
    /\ k \in keyboards[u].answer /\ a < k
    /\ LET n == user_data[u].pending_poll
       IN IF n = NoKey
          THEN /\ keyboards' = [keyboards EXCEPT ![u].answer = @ \ {k}]
               /\ user_data' = user_data
          ELSE IF a < n
          THEN /\ keyboards[u].category < MaxKeyboards
               /\ keyboards' = [keyboards EXCEPT ![u].category = @ + 1]
               /\ user_data' = [user_data EXCEPT
                                   ![u].pending_question =
                                       [present |-> TRUE, options |-> n, answer |-> a],
                                   ![u].pending_poll = NoKey]
          ELSE /\ keyboards' = keyboards
               /\ user_data' = [user_data EXCEPT ![u].pending_question =
                                   [present |-> TRUE, options |-> n, answer |-> a]]
    /\ UNCHANGED <<quizvars, questions_file, handler>>

\* button pollcat_<category>: the category is stored in pending_question (a new dict
\* when the key is missing) and the keyboard is replaced by the id keyboard
O_HandlePollCategorySelection(u) ==
    /\ variant = "Original" /\ Idle(u)
    /\ keyboards[u].category > 0 /\ keyboards[u].ids < MaxKeyboards
    /\ user_data' = [user_data EXCEPT ![u].pending_question.present = TRUE]
    /\ keyboards' = [keyboards EXCEPT ![u].category = @ - 1, ![u].ids = @ + 1]
    /\ UNCHANGED <<quizvars, questions_file, handler>>

\* button "Skip to ID Selection" (pollid_custom) of the category keyboard: the
\* keyboard is replaced by the id keyboard
O_SkipToIdSelection(u) ==
    /\ variant = "Original" /\ Idle(u)
    /\ keyboards[u].category > 0 /\ keyboards[u].ids < MaxKeyboards
    /\ keyboards' = [keyboards EXCEPT ![u].category = @ - 1, ![u].ids = @ + 1]
    /\ UNCHANGED <<quizvars, questions_file, user_data, handler>>

\* save_final_poll_question of Original: an automatic id that is taken is replaced
\* by max + 1, a custom id is used as it is, and the question is appended
O_SaveFinalPollQuestion(qs, pending_question, custom_id) ==
    LET first_id == IF custom_id # NoKey THEN custom_id ELSE GetNextQuestionId(qs)
        id == IF IndexById(qs, first_id) > 0 /\ custom_id = NoKey
              THEN MaxId(qs) + 1 ELSE first_id
    IN Append(qs, [id |-> id, options |-> pending_question.options,
                   answer |-> pending_question.answer])

\* button pollid_auto: without pending_question the keyboard is replaced by an
\* error; otherwise the question is saved and pending_question deleted (the
\* confirmation is sent with update.message, which a callback update does not have:
\* the keyboard stays)
O_HandlePollIdSelection(u) ==
    /\ variant = "Original" /\ Idle(u)
    /\ keyboards[u].ids > 0
    /\ IF ~user_data[u].pending_question.present
       THEN /\ keyboards' = [keyboards EXCEPT ![u].ids = @ - 1]
            /\ UNCHANGED <<questions_file, user_data>>
       ELSE /\ Len(questions_file) < MaxBank
            /\ questions_file' = O_SaveFinalPollQuestion(questions_file,
                                     user_data[u].pending_question, NoKey)
            /\ user_data' = [user_data EXCEPT ![u].pending_question = NoPending,
                                              ![u].waiting_for_custom_id = FALSE]
            /\ keyboards' = keyboards
    /\ UNCHANGED <<quizvars, handler>>

\* button pollcustom_input of the id keyboard: awaiting_custom_id is set and the
\* keyboard is replaced by the request for an id
O_HandlePollCustomSelection(u) ==
    /\ variant = "Original" /\ Idle(u)
    /\ keyboards[u].ids > 0
    /\ keyboards' = [keyboards EXCEPT ![u].ids = @ - 1]
    /\ user_data' = [user_data EXCEPT ![u].waiting_for_custom_id = TRUE]
    /\ UNCHANGED <<quizvars, questions_file, handler>>

\* a positive number sent while awaiting_custom_id: the question is saved under it
O_HandleCustomIdInput(u, custom_id) ==
    /\ variant = "Original" /\ Idle(u)
    /\ user_data[u].waiting_for_custom_id
    /\ IF ~user_data[u].pending_question.present
       THEN UNCHANGED <<questions_file, user_data>>
       ELSE /\ Len(questions_file) < MaxBank
            /\ questions_file' = O_SaveFinalPollQuestion(questions_file,
                                     user_data[u].pending_question, custom_id)
            /\ user_data' = [user_data EXCEPT ![u].pending_question = NoPending,
                                              ![u].waiting_for_custom_id = FALSE]
    /\ UNCHANGED <<quizvars, keyboards, handler>>

\* /edit: the list is loaded into user_data['questions']
O_EditQuestionStart(u) ==
    /\ variant = "Original" /\ Idle(u)
    /\ user_data[u].state = "END"
    /\ questions_file # <<>>
    /\ user_data' = [user_data EXCEPT ![u].questions = questions_file,
                                      ![u].state = "EDIT_SELECT"]
    /\ UNCHANGED <<quizvars, questions_file, keyboards, handler>>

\* the number of a line of the list (from 1)
O_EditQuestionSelect(u, sel) ==
    /\ variant = "Original" /\ Idle(u)
    /\ user_data[u].state = "EDIT_SELECT"
    /\ user_data' = IF sel - 1 < 0 \/ sel - 1 >= Len(user_data[u].questions)
                    THEN user_data
                    ELSE [user_data EXCEPT ![u].edit_index = sel,
                                           ![u].state = "EDIT_QUESTION"]
    /\ UNCHANGED <<quizvars, questions_file, keyboards, handler>>

\* edit_question_update of Original: the question of user_data['questions'] is
\* changed and that list is saved
O_EditQuestionUpdate(u, x) ==
    /\ variant = "Original" /\ Idle(u)
    /\ user_data[u].state = "EDIT_OPTIONS"
    /\ LET questions == user_data[u].questions
           edit_index == user_data[u].edit_index
           selected_question == questions[edit_index]
           rejected == IF user_data[u].edit_field = "options" THEN x < 2
                       ELSE x < 0 \/ x >= selected_question.options
           edited == IF user_data[u].edit_field = "options"
                     THEN WithOptions(selected_question, x)
                     ELSE [selected_question EXCEPT !.answer = x]
       IN IF rejected
          THEN UNCHANGED <<questions_file, user_data>>
          ELSE /\ questions_file' = [questions EXCEPT ![edit_index] = edited]
               /\ user_data' = [user_data EXCEPT
                                   ![u].questions = [questions EXCEPT ![edit_index] = edited],
                                   ![u].state = "END"]
    /\ UNCHANGED <<quizvars, keyboards, handler>>

\* the poll conversion of Original
OC_Next ==
    \/ \E u \in Converters, n \in PollOptionCounts, c \in {NoKey} \cup (0..(MaxOptions - 1)) :
          c < n /\ O_PollToQuestion(u, n, c)
    \/ \E u \in Converters, k \in PollOptionCounts, a \in 0..(MaxOptions - 1) :
          O_HandlePollAnswerCallback(u, k, a)
    \/ \E u \in Converters : O_HandlePollCategorySelection(u)
    \/ \E u \in Converters : O_SkipToIdSelection(u)
    \/ \E u \in Converters : O_HandlePollIdSelection(u)
    \/ \E u \in Converters : O_HandlePollCustomSelection(u)
    \/ \E u \in Converters, c \in CustomIds : O_HandleCustomIdInput(u, c)

SpecConvertOriginal == InitOriginal /\ [][OC_Next]_vars

\* the edit conversation of Original, next to a poll conversion and the deletions of
\* another user
OE_Next ==
    \/ \E u \in Editors : O_EditQuestionStart(u)
    \/ \E u \in Editors, sel \in {0} \cup EditIds : O_EditQuestionSelect(u, sel)
    \/ \E u \in Editors, f \in EditFields : L_EditQuestionField(u, f)
    \/ \E u \in Editors, x \in EditInputs : O_EditQuestionUpdate(u, x)
    \/ \E u \in Converters, id \in DeleteIds : L_DeleteCallback(u, id)
    \/ \E u \in Converters : O_PollToQuestion(u, 2, 1)
    \/ \E u \in Converters : O_HandlePollCategorySelection(u)
    \/ \E u \in Converters : O_HandlePollIdSelection(u)

SpecEditOriginal == InitOriginal /\ [][OE_Next]_vars

\* ---- rankings of up to MaxVoters participants
MaxVoters == 4
Voters == 1..MaxVoters

\* the answers of any of the voters to one poll, in the order of their ids
RECURSIVE VoterAnswers(_)
VoterAnswers(n) ==
    IF n = 0 THEN {<<>>}
    ELSE LET prev == VoterAnswers(n - 1)
         IN prev \cup {Append(a, [user |-> n, option_id |-> o,
                                  is_correct |-> IsCorrect(o, Answer(1))]) :
                          a \in prev, o \in Options}

\* The states in which a quiz of one question is over for up to MaxVoters voters and
\* the results are about to be compiled: the chain of Lifechanger and Original
\* sleeps after the poll, the job of Simple_bot is scheduled, and the chain of
\* simple_bot (whose scoreboard holds the requester only) sleeps after the last of
\* two polls.
RankingInit ==
    /\ BankInit
    /\ variant \in Variants \cup {"Simple_bot"}
    /\ ud = [r \in Users |-> IF IsL \/ IsS THEN IF r = 1 THEN 1 ELSE 0 ELSE 0]
    /\ results = [s \in Sid |-> <<>>]
    /\ active_timers = {}
    /\ \E f \in VoterAnswers(MaxVoters) :
         /\ nAnswers = IF IsS THEN 0 ELSE Len(f)
         /\ IF IsL
            THEN LET sp == <<[poll_id |-> 1, question_index |-> 0, answers |-> f]>>
                     q == [NoQuiz EXCEPT !.alloc = TRUE, !.questions = <<1>>,
                                         !.current_index = 1, !.active = TRUE,
                                         !.creator = 1, !.sent_polls = sp,
                                         !.participants = ScoreAll(<<>>, f, variant)]
                 IN /\ quiz = [s \in Sid |-> IF s = 1 THEN q ELSE NoQuiz]
                    /\ task = [s \in Sid |->
                                 IF s = 1
                                 THEN [NoTask EXCEPT !.pc = "sleeping", !.r = 1, !.q = 1]
                                 ELSE NoTask]
                    /\ polls = <<[sid |-> 1, qi |-> 0, quest |-> 1]>>
                    /\ ledger = [u \in Voters |->
                                   [total_answers |-> Cardinality({i \in 1..Len(f) : f[i].user = u}),
                                    correct_answers |-> Cardinality({i \in 1..Len(f) :
                                                          f[i].user = u /\ f[i].is_correct}),
                                    quizzes_taken |-> 0]]
                    /\ bot_data = [k \in Sid |-> NoEntry]
                    /\ jobs = [k \in Sid |-> NoJobs]
            ELSE IF IsS
            THEN /\ f = <<>>
                 /\ \E parts \in SimpleScoreboards(1, 2) :
                      /\ parts # <<>> => parts[1].correct <= parts[1].answered
                      /\ quiz = [s \in Sid |->
                                   IF s = 1
                                   THEN [NoQuiz EXCEPT !.alloc = TRUE, !.questions = <<1, 2>>,
                                                       !.current_index = 2,
                                                       !.current_poll_id = 2,
                                                       !.participants = parts]
                                   ELSE NoQuiz]
                 /\ task = [s \in Sid |->
                              IF s = 1
                              THEN [NoTask EXCEPT !.pc = "sleep_last", !.r = 1, !.q = 1,
                                                  !.ci = 1, !.n = 2]
                              ELSE NoTask]
                 /\ polls = <<[sid |-> 1, qi |-> 0, quest |-> 1], [sid |-> 1, qi |-> 1, quest |-> 2]>>
                 /\ ledger = LedgerAfter(<<>>)
                 /\ bot_data = [k \in Sid |-> NoEntry]
                 /\ jobs = [k \in Sid |-> NoJobs]
            ELSE /\ quiz = [s \in Sid |-> NoQuiz]
                 /\ task = [s \in Sid |-> NoTask]
                 /\ polls = <<[key |-> 1, chat |-> "group", mid |-> 1,
                               voters |-> {f[i].user : i \in 1..Len(f)}]>>
                 /\ ledger = [u \in Voters |->
                                [score |-> IF \E i \in 1..Len(f) : f[i].user = u
                                           THEN Points(f[IndexOf(f, u)].option_id, Answer(1), TRUE)
                                           ELSE 0,
                                 questions_answered |-> Cardinality({i \in 1..Len(f) : f[i].user = u}),
                                 correct_answers |-> Cardinality({i \in 1..Len(f) :
                                                          f[i].user = u /\ f[i].is_correct})]]
                 /\ bot_data = [k \in Sid |->
                                  IF k = 1
                                  THEN [NoEntry EXCEPT !.created = TRUE, !.present = TRUE,
                                           !.chat = "group", !.correct_option = Answer(1),
                                           !.timer = 15, !.question_id = 1,
                                           !.poll_message_id = 1,
                                           !.participants =
                                               [i \in 1..Len(f) |->
                                                   [user |-> f[i].user,
                                                    score |-> Points(f[i].option_id, Answer(1), TRUE),
                                                    correct |-> f[i].is_correct]]]
                                  ELSE NoEntry]
                 /\ jobs = [k \in Sid |-> IF k = 1 THEN [NoJobs EXCEPT !.scheduled = 1]
                                          ELSE NoJobs]

RankingNext ==
    \/ \E t \in Sid : L_Wake(t)
    \/ \E t \in Sid : L_ResultSent(t)
    \/ \E t \in Sid : S_WakeLast(t)
    \/ \E t \in Sid : S_ResultSent(t)
    \/ \E k \in Sid : B_JobFire(k)
    \/ \E k \in Sid, i \in 1..MaxAnswers : B_ResultSent(k, i)

SpecRanking == RankingInit /\ [][RankingNext]_vars

R_Next ==
    \/ \E t \in Sid : L_Wake(t)
    \/ \E t \in Sid : L_ResultSent(t)
    \/ \E t \in Sid : S_WakeLast(t)
    \/ \E t \in Sid : S_ResultSent(t)

SpecResults == R_Init /\ [][R_Next]_vars

\* ------------------------------------------------------------- properties
AnswerInputs == Options \cup {NoOption}

\* the scoreboards of all quiz dicts
Scoreboards == [s \in Sid |-> quiz[s].participants]

\* the number of polls of dict s for which an answer of user u is recorded
PollsAnsweredBy(s, u) ==
    Cardinality({i \in 1..Len(quiz[s].sent_polls) :
                    IndexOf(quiz[s].sent_polls[i].answers, u) # 0})

\* C1: delivering the answer event (p, u) any number of times counts one answer: in
\* every scoreboard a participant's answeredCount is at most the number of polls of the
\* session for which an answer of that participant was recorded.
C1_DuplicatesCountOnce ==
    \A s \in Sid : \A i \in 1..Len(quiz[s].participants) :
        quiz[s].active =>
            quiz[s].participants[i].answered <= PollsAnsweredBy(s, quiz[s].participants[i].user)

\* poll p belongs to a question that has closed: its session went on to a later
\* question or is finished
Closed(p) ==
    \E s \in Sid :
        /\ PollIndex(quiz[s].sent_polls, p) # 0
        /\ \/ quiz[s].current_index > quiz[s].sent_polls[PollIndex(quiz[s].sent_polls, p)].question_index + 1
           \/ ~quiz[s].active

\* C2: an answer event for the poll of a closed question changes no scoreboard.
C2_ClosedPollIgnored ==
    [][\A p \in 1..Len(polls), u \in Users, o \in AnswerInputs :
          (L_PollAnswer(p, u, o) /\ Closed(p)) => Scoreboards' = Scoreboards]_vars

\* C3: a recorded answer is judged by the question its poll was sent for.
C3_JudgedByOwnQuestion ==
    [][\A p \in 1..Len(polls), u \in Users, o \in AnswerInputs :
          (S_Answer(p, u, o) /\ Scoreboards' # Scoreboards)
              => quiz[ud[u]].questions[JudgedIndex(u)] = polls[p].quest]_vars

\* C4: 0 <= correctCount <= answeredCount <= totalQuestions in every scoreboard and
\* in every result message.
C4_ScoreBound ==
    /\ \A s \in Sid : \A i \in 1..Len(quiz[s].participants) :
          /\ 0 <= quiz[s].participants[i].correct
          /\ quiz[s].participants[i].correct <= quiz[s].participants[i].answered
          /\ quiz[s].participants[i].answered <= Len(quiz[s].questions)
    /\ \A s \in Sid : \A k \in 1..Len(results[s]) : \A i \in 1..Len(results[s][k].entries) :
          /\ 0 <= results[s][k].entries[i].correct
          /\ results[s][k].entries[i].correct <= results[s][k].entries[i].answered
          /\ results[s][k].entries[i].answered <= results[s][k].total

\* the transport answers and the sleeps end: every suspended chain of simple_bot resumes
FairSpecSimple ==
    /\ InitSimple /\ [][S_Next]_vars
    /\ \A t \in Sid :
          WF_vars(S_Started(t) \/ S_PollSent(t) \/ S_CountdownSent(t) \/ S_WakeLast(t)
                  \/ S_WakeNext(t) \/ S_ResultSent(t))

\* C6: a started session with at least one question eventually emits its result
\* message, unless the requester's quiz was cleared or replaced before.
C6_EventuallyResults ==
    \A r \in Requesters, s \in Sid :
        (ud[r] = s /\ quiz[s].questions # <<>>) ~> (results[s] # <<>> \/ ud[r] # s)

\* C7: at most one result message is emitted for a session.
C7_ResultsAtMostOnce ==
    \A s \in Sid : Len(results[s]) <= 1

\* C8: a chain sleeping on the timer of a question belongs to the quiz its requester
\* still has: once the quiz data was cleared or replaced no such chain remains.
C8_NothingArmedAfterCancel ==
    \A t \in Sid :
        task[t].pc \in {"sleep_next", "sleep_last"} => ud[task[t].r] = task[t].q

\* the timer chain t sleeps on was armed for a question its session is no longer at:
\* the session was replaced, has finished or has moved on
Stale(t) ==
    \/ ud[task[t].r] # task[t].q
    \/ ~quiz[task[t].q].active
    \/ quiz[task[t].q].current_index # task[t].ci + 1

\* C9: the firing of a stale timer sends no question and ends no quiz: the chain stops
\* and no quiz dict changes.
C9_StaleTimerDoesNothing ==
    [][\A t \in Sid : (L_Wake(t) /\ Stale(t)) => (task'[t].pc = "done" /\ quiz' = quiz)]_vars

AdjustedScore(e) == 4 * e.correct - e.negq

\* C5: in every result message, of two entries with equal adjusted score the one
\* with the higher answeredCount stands above the one with the lower.
C5_MoreAnsweredRanksAbove ==
    \A s \in Sid : \A k \in 1..Len(results[s]) :
        \A i, j \in 1..Len(results[s][k].entries) :
            (i < j /\ AdjustedScore(results[s][k].entries[i]) = AdjustedScore(results[s][k].entries[j]))
                => results[s][k].entries[i].answered >= results[s][k].entries[j].answered

\* C10: the result message of a quiz for which no answer was recorded has exactly
\* one entry: the requester, with every question answered and correct.
C10_NoAnswersFallback ==
    \A s \in Sid : \A k \in 1..Len(results[s]) :
        results[s][k].empty =>
            /\ Len(results[s][k].entries) = 1
            /\ results[s][k].entries[1].user = results[s][k].requester
            /\ results[s][k].entries[1].correct = results[s][k].total
            /\ results[s][k].entries[1].answered = results[s][k].total

\* C11: with negative marking the score a result message displays for a participant is
\* correctCount minus 0.25 for each of their incorrect answers (scores in quarters).
C11_DisplayedScore ==
    \A s \in Sid : \A k \in 1..Len(results[s]) :
        \A i \in 1..Len(results[s][k].entries) :
            LET e == results[s][k].entries[i]
            IN AdjustedScore(e) = 4 * e.correct - (e.answered - e.correct)

\* the number of distinct questions of quiz qz for which a correct answer of u is recorded
DistinctCorrect(qz, u) ==
    Cardinality({qz.sent_polls[i].question_index : i \in
                    {j \in 1..Len(qz.sent_polls) :
                        \E a \in 1..Len(qz.sent_polls[j].answers) :
                            /\ qz.sent_polls[j].answers[a].user = u
                            /\ qz.sent_polls[j].answers[a].is_correct}})

\* C12: without negative marking the result message compiled from recorded answers
\* shows for each participant the number of distinct questions they answered correctly,
\* and lists participants with more correct answers first.
C12_DistinctCorrectRanked ==
    \A t \in Sid :
        (task[t].pc = "ending" /\ ud[task[t].r] = task[t].q /\ ~task[t].msg.empty) =>
            LET m == task[t].msg
                qz == quiz[task[t].q]
            IN /\ \A i \in 1..Len(m.entries) :
                     m.entries[i].correct = DistinctCorrect(qz, m.entries[i].user)
               /\ \A i, j \in 1..Len(m.entries) :
                     i < j => m.entries[i].correct >= m.entries[j].correct

\* C13: the ledger entry of a user changes only in the step that emits the result
\* message of a finished session, and only if the user is in that message.
C13_LedgerOnlyAtResults ==
    [][\A u \in Users :
          ledger'[u] # ledger[u] =>
              \E s \in Sid :
                  /\ Len(results'[s]) = Len(results[s]) + 1
                  /\ IndexOf(results'[s][Len(results'[s])].entries, u) # 0]_vars

\* C14: when sending a question failed the session is cancelled: it is no longer
\* active, and its results are compiled.
C14_SendFailureCancels ==
    \A t \in Sid :
        (task[t].pc = "send_failed" /\ ud[task[t].r] = task[t].q) =>
            /\ ~quiz[task[t].q].active
            /\ \/ results[task[t].q] # <<>>
               \/ \E t2 \in Sid : task[t2].pc \in {"ending", "ending_alt"} /\ task[t2].q = task[t].q

\* C15: when the first attempt to send the result message fails, the same message is
\* sent again by an alternative path before the delivery is given up.
C15_AlternativeDelivery ==
    [][\A t \in Sid :
          L_ResultFailed(t) => (task'[t].pc = "ending_alt" /\ task'[t].msg = task[t].msg)]_vars

\* C16: the recorded answers of a quiz are never discarded without a result message:
\* when a scoreboard with entries is dropped, a result was emitted for its quiz.
C16_NoAnswersDiscarded ==
    [][\A s \in Sid :
          (quiz[s].participants # <<>> /\ quiz'[s].participants = <<>>)
              => results'[s] # <<>>]_vars

\* the final results of quiz dict d have been compiled
Compiled(d) ==
    \/ results[d] # <<>>
    \/ \E t \in Sid : task[t].pc = "ending" /\ task[t].src = d

\* C17: an answer processed after the results of its session were compiled is dropped:
\* no answer is recorded in a scoreboard whose results have been compiled already.
C17_NoAnswerAfterCompile ==
    [][\A p \in 1..Len(polls), u \in Users, o \in AnswerInputs :
          (S_Answer(p, u, o) /\ Scoreboards' # Scoreboards) => ~Compiled(ud[u])]_vars

\* C19: when a quiz is compiled, of two participants with equal score and equal
\* answeredCount the one who was first seen earlier (who stands earlier in the
\* scoreboard of the quiz) is ranked first.
C19_FirstSeenFirst ==
    [][\A t \in Sid :
          (task[t].pc # "ending" /\ task'[t].pc = "ending") =>
              LET m == task'[t].msg
                  seen == quiz[task'[t].q].participants
              IN \A i, j \in 1..Len(m.entries) :
                    (/\ i < j
                     /\ AdjustedScore(m.entries[i]) = AdjustedScore(m.entries[j])
                     /\ m.entries[i].answered = m.entries[j].answered)
                        => IndexOf(seen, m.entries[i].user) < IndexOf(seen, m.entries[j].user)]_vars

\* the quiz dicts for which poll p is the open question: a user holds the dict, p is
\* its current poll, a chain sleeps on the timer of the question and no results were
\* compiled
OpenIn(p) ==
    {d \in Sid : /\ \E r \in Users : ud[r] = d
                 /\ quiz[d].current_poll_id = p
                 /\ \E t \in Sid : task[t].pc \in {"sleep_next", "sleep_last"} /\ task[t].q = d
                 /\ ~Compiled(d)}

\* C20: an answer of any user to the poll of an open question is recorded in the
\* scoreboard of the quiz the poll belongs to.
C20_AnyParticipantRecorded ==
    [][\A p \in 1..Len(polls), u \in Users, o \in AnswerInputs :
          S_Answer(p, u, o) =>
              \A d \in OpenIn(p) : quiz'[d].participants # quiz[d].participants]_vars

\* every member of the chat of quiz k has voted in the poll of the quiz
AllAnswered(k) ==
    \E p \in 1..Len(polls) : polls[p].key = k /\ polls[p].voters = Members(polls[p].chat)

\* C21: dispatching the question of a quiz without timer schedules no job, and once
\* every participant of such a quiz has answered the quiz eventually emits its results,
\* in a private chat and in a group chat.
C21_ZeroTimerFinishes ==
    /\ [][\A k \in Sid, m \in MessageIds :
             (B_PollSent(k, m) /\ bot_data[k].timer = 0) => jobs' = jobs]_vars
    /\ \A k \in Sid :
          (bot_data[k].present /\ bot_data[k].timer = 0 /\ AllAnswered(k)) ~> (results[k] # <<>>)

\* C22: within one quiz the cursor never decreases, and the polls of the quiz are sent
\* for the question indexes in increasing order, each index at most once.
C22_SequentialDispatch ==
    /\ [][\A s \in Sid :
             (quiz[s].questions # <<>> /\ quiz'[s].questions = quiz[s].questions)
                 => quiz'[s].current_index >= quiz[s].current_index]_vars
    /\ [](\A p1, p2 \in 1..Len(polls) :
             (p1 < p2 /\ polls[p1].sid = polls[p2].sid) => polls[p1].qi < polls[p2].qi)

\* the running sessions: quiz dicts a user holds whose chain has not compiled results
Running ==
    {s \in Sid : /\ \E r \in Users : ud[r] = s
                 /\ quiz[s].questions # <<>>
                 /\ results[s] = <<>>
                 /\ ~\E t \in Sid : task[t].pc = "ending" /\ (task[t].q = s \/ task[t].src = s)}

\* C23: starting a session leaves every running session as it is: its questions, its
\* cursor, its scoreboard and its polls are unchanged and it is still running.
C23_StartLeavesOthers ==
    [][\A r \in Requesters, qs \in QuestionLists :
          (L_Start(r, qs) \/ S_Start(r, qs)) =>
              \A s \in Running : quiz'[s] = quiz[s] /\ s \in Running']_vars

\* the counters of user u in a scoreboard (0 when u has no entry)
AnsweredCount(parts, u) == IF IndexOf(parts, u) = 0 THEN 0 ELSE parts[IndexOf(parts, u)].answered
CorrectCount(parts, u) == IF IndexOf(parts, u) = 0 THEN 0 ELSE parts[IndexOf(parts, u)].correct

\* the quiz dict an answer event (p, u) is recorded in (0: the event is dropped)
RecordedIn(p, u) ==
    IF IsL
    THEN IF FoundQuiz(p) = {} THEN 0 ELSE CHOOSE x \in FoundQuiz(p) : TRUE
    ELSE IF ud[u] # 0 /\ quiz[ud[u]].current_poll_id = p /\ JudgedIndex(u) # 0 THEN ud[u] ELSE 0

\* C24: a recorded answer whose option is absent or is no option of the question adds
\* one to the participant's answeredCount and nothing to their correctCount.
C24_InvalidOptionNotCorrect ==
    [][\A p \in 1..Len(polls), u \in Users, o \in InvalidOptions :
          ((L_PollAnswer(p, u, o) \/ S_Answer(p, u, o)) /\ RecordedIn(p, u) # 0) =>
              LET d == RecordedIn(p, u)
              IN /\ AnsweredCount(quiz'[d].participants, u)
                       = AnsweredCount(quiz[d].participants, u) + 1
                 /\ CorrectCount(quiz'[d].participants, u)
                       = CorrectCount(quiz[d].participants, u)]_vars

\* an answer with an option that is no option of the question is recorded in a poll of
\* a quiz and its user stands in the scoreboard with an answer counted
C24_Witness ==
    \E s \in Sid : \E i \in 1..Len(quiz[s].sent_polls) :
        \E a \in 1..Len(quiz[s].sent_polls[i].answers) :
            /\ quiz[s].sent_polls[i].answers[a].option_id = Cardinality(Options)
            /\ AnsweredCount(quiz[s].participants, quiz[s].sent_polls[i].answers[a].user) >= 1

\* C25: in every scoreboard the accumulated penalty of a participant is the penalty of
\* the variant (a quarter of a point with negative marking, nothing without) for each
\* of their answers that was not correct.
C25_PenaltyAccumulated ==
    \A s \in Sid : \A i \in 1..Len(quiz[s].participants) :
        quiz[s].participants[i].negq
            = NegativeMarking(variant)
                * (quiz[s].participants[i].answered - quiz[s].participants[i].correct)

\* poll p belongs to an active session: the quiz dict the poll was sent for is held by
\* a user and its results have not been compiled
Owned(p) == \E r \in Users : ud[r] = polls[p].sid /\ ~Compiled(polls[p].sid)

\* C26: an answer event for a poll that belongs to no active session changes no quiz
\* dict (scoreboard, cursor, recorded answers), no statistics and no chain.
C26_ForeignPollDropped ==
    [][\A p \in 1..Len(polls), u \in Users, o \in AnswerInputs :
          ((L_PollAnswer(p, u, o) \/ S_Answer(p, u, o)) /\ ~Owned(p))
              => UNCHANGED <<quiz, ledger, task, results>>]_vars

\* the poll ids that resolve to quiz dict s
Resolving(s) == {p \in 1..Len(polls) : s \in FoundQuiz(p)}

\* C27: at most one poll id resolves to a session at any moment, and it is the poll
\* of the question the session has open (the question before the cursor).
C27_OnePollResolves ==
    \A s \in Sid :
        /\ Cardinality(Resolving(s)) <= 1
        /\ \A p \in Resolving(s) :
              quiz[s].sent_polls[PollIndex(quiz[s].sent_polls, p)].question_index
                  = quiz[s].current_index - 1

\* the sent_polls entries stored under poll id p, per quiz dict
Registered(p) ==
    [s \in Sid |-> IF PollIndex(quiz[s].sent_polls, p) = 0 THEN <<>>
                   ELSE <<quiz[s].sent_polls[PollIndex(quiz[s].sent_polls, p)]>>]

\* C28: storing a poll under an id that is already registered keeps the registered
\* entry, with the answers recorded under it, and cancels the session of the chain.
C28_DuplicatePollId ==
    [][\A t \in Sid, p \in 1..Len(polls) :
          (L_PollSentAgain(t, p) /\ \E s \in Sid : Registered(p)[s] # <<>>) =>
              /\ \A s \in Sid : Registered(p)[s] # <<>> => Registered(p)'[s] = Registered(p)[s]
              /\ ~quiz'[task[t].q].active]_vars

\* C29: correctCount <= answeredCount for every participant, in the scoreboard kept
\* while answers arrive, in the table end_quiz rebuilds and in the result messages.
C29_CorrectAtMostAnswered ==
    /\ \A s \in Sid : \A i \in 1..Len(quiz[s].participants) :
          quiz[s].participants[i].correct <= quiz[s].participants[i].answered
    /\ \A t \in Sid : \A i \in 1..Len(task[t].parts) :
          task[t].parts[i].correct <= task[t].parts[i].answered
    /\ \A s \in Sid : \A k \in 1..Len(results[s]) : \A i \in 1..Len(results[s][k].entries) :
          results[s][k].entries[i].correct <= results[s][k].entries[i].answered

\* end_quiz has rebuilt, from recorded answers, a table with a participant who has a
\* correct answer, and their entry in the scoreboard has one too
C29_Witness ==
    \E t \in Sid :
        /\ task[t].pc = "ending"
        /\ task[t].parts # <<>>
        /\ ~task[t].msg.empty
        /\ \E i \in 1..Len(task[t].parts) :
              /\ task[t].parts[i].correct >= 1
              /\ CorrectCount(quiz[task[t].q].participants, task[t].parts[i].user) >= 1

\* C30: once a result message was emitted for a quiz its entry is gone from bot_data,
\* also when nobody took part, and a later answer to its poll changes no quiz entry and
\* no statistics and schedules no job.
C30_DiscardedAfterResults ==
    /\ [](\A k \in Sid : results[k] # <<>> => ~bot_data[k].present)
    /\ [][\A p \in 1..Len(polls), u \in Users, o \in AnswerInputs :
             (B_QuizAnswer(p, u, o) /\ results[polls[p].key] # <<>>)
                 => UNCHANGED <<bot_data, jobs, ledger>>]_vars

\* num / den rounded to the nearest integer (den > 0), as the format .1f rounds
RoundDiv(num, den) ==
    IF num >= 0 THEN (2 * num + den) \div (2 * den)
    ELSE 0 - ((2 * (0 - num) + den) \div (2 * den))

\* the percentage a result message shows for entry e, in tenths of a percent:
\* (correct - negative_points) / questions_count * 100, and 0 without questions
PercentTenths(e, total) ==
    IF total > 0 THEN RoundDiv(AdjustedScore(e) * 250, total) ELSE 0

\* C31: the percentage shown for every participant of every result message lies
\* between 0 and 100.
C31_PercentageInRange ==
    \A s \in Sid : \A k \in 1..Len(results[s]) : \A i \in 1..Len(results[s][k].entries) :
        /\ PercentTenths(results[s][k].entries[i], results[s][k].total) >= 0
        /\ PercentTenths(results[s][k].entries[i], results[s][k].total) <= 1000

ValidQuestion(q) == q.options >= 2 /\ q.answer >= 0 /\ q.answer < q.options

\* C33: every question of the question bank has at least two options and an answer
\* index that is an index of its options, and an edit of the options of a question
\* sets its answer index to 0 when it is no index of the new options and leaves it
\* as it is otherwise.
C33_BankValid ==
    /\ [](\A i \in 1..Len(questions_file) : ValidQuestion(questions_file[i]))
    /\ [][\A u \in Users, x \in EditInputs :
            /\ (L_EditQuestionUpdate(u, x) /\ handler'[u].pc = "saving") =>
                  LET i == IndexById(questions_file, user_data[u].edit_question_id)
                  IN /\ handler'[u].questions[i].options = x
                     /\ handler'[u].questions[i].answer =
                           IF questions_file[i].answer >= x THEN 0
                           ELSE questions_file[i].answer
            /\ (O_EditQuestionUpdate(u, x) /\ user_data[u].edit_field = "options"
                  /\ user_data'[u].state = "END") =>
                  LET i == user_data[u].edit_index
                  IN /\ questions_file'[i].options = x
                     /\ questions_file'[i].answer =
                           IF user_data[u].questions[i].answer >= x THEN 0
                           ELSE user_data[u].questions[i].answer]_vars

\* C34: no two questions of the question bank have the same id.
C34_UniqueIds ==
    \A i, j \in 1..Len(questions_file) :
        i # j => questions_file[i].id # questions_file[j].id

\* the questions of qs with another id
Others(qs, id) == SelectSeq(qs, LAMBDA q : q.id # id)

\* C38: the save of an edit changes the edited question only: the other questions of
\* the bank, those added by another conversation during the edit included and those
\* deleted excluded, are the same after the save.
C38_EditChangesOneQuestion ==
    [][\A u \in Users, x \in EditInputs :
          /\ L_EditQuestionUpdate(u, x) =>
                Others(questions_file', user_data[u].edit_question_id)
                    = Others(questions_file, user_data[u].edit_question_id)
          /\ L_EditSaved(u) =>
                Others(questions_file', user_data[u].edit_question_id)
                    = Others(questions_file, user_data[u].edit_question_id)
          /\ (O_EditQuestionUpdate(u, x) /\ user_data'[u].state = "END") =>
                LET id == user_data[u].questions[user_data[u].edit_index].id
                IN Others(questions_file', id) = Others(questions_file, id)]_vars

\* the same participants with the same counters, whatever the order of the entries
SameTable(a, b) == {a[i] : i \in DOMAIN a} = {b[i] : i \in DOMAIN b}

\* C35: when end_quiz compiles a quiz for which at least one answer was recorded, the
\* participant table it rebuilds from the answers of the sent polls equals the
\* participants the answer handler maintained: the same users, each with the same
\* answered, correct and negative points.
C35_RebuildEqualsIncremental ==
    [][\A t \in Sid :
          (task[t].pc # "ending" /\ task'[t].pc = "ending"
             /\ AllAnswers(quiz[task'[t].q].sent_polls) # <<>>)
          => SameTable(quiz'[task'[t].q].participants, quiz[task'[t].q].participants)]_vars

\* the users with at least one answer recorded in quiz dict s: in the answers of its
\* sent polls (Lifechanger, Original) or in its scoreboard (simple_bot)
RecordedUsers(s) ==
    IF IsL THEN {AllAnswers(quiz[s].sent_polls)[i].user :
                    i \in 1..Len(AllAnswers(quiz[s].sent_polls))}
    ELSE {quiz[s].participants[i].user : i \in 1..Len(quiz[s].participants)}

\* C36: every result message of a quiz with recorded answers lists exactly the users
\* with a recorded answer, each once, and its first entry (the declared winner) has
\* the greatest adjusted score of the list.
C36_RankedList ==
    \A s \in Sid : \A k \in 1..Len(results[s]) :
        LET e == results[s][k].entries
        IN /\ RecordedUsers(s) # {} => {e[i].user : i \in 1..Len(e)} = RecordedUsers(s)
           /\ \A i, j \in 1..Len(e) : i # j => e[i].user # e[j].user
           /\ \A i \in 1..Len(e) : AdjustedScore(e[1]) >= AdjustedScore(e[i])

\* quiz dict d is finished: its results were delivered or are being sent
Finished(d) ==
    \/ results[d] # <<>>
    \/ \E t \in Sid : task[t].pc = "ending" /\ (task[t].q = d \/ task[t].src = d)

\* C37: once the results of a quiz were compiled no poll is sent for it any more, and
\* its cursor, its scoreboard and its recorded answers stay as they are until the
\* quiz data is removed.
C37_FinishedIsTerminal ==
    [][\A d \in Sid :
          Finished(d) =>
             /\ \A p \in (Len(polls) + 1)..Len(polls') : polls'[p].sid # d
             /\ \/ quiz'[d] = [NoQuiz EXCEPT !.alloc = quiz[d].alloc]
                 \/ /\ quiz'[d].current_index = quiz[d].current_index
                    /\ quiz'[d].participants = quiz[d].participants
                    /\ quiz'[d].sent_polls = quiz[d].sent_polls]_vars
====
